---- MODULE Spec2Model ----
(***************************************************************************)
(* Model of the Veeam / Hitachi HNAS snapshot hooks:                       *)
(*   fixed_hnas_pre_backup.py   (pre-phase:  snapshots, shares, manifest)  *)
(*   fixed_hnas_post_backup.py  (post-phase: cleanup, retention sweep)     *)
(* The storage array, the manifest file and the wall clock are shared      *)
(* state; a behaviour is a sequence of script invocations, each stepping   *)
(* through main() one loop iteration or one client call at a time.         *)
(***************************************************************************)
EXTENDS Integers, Sequences, FiniteSets, TLC

VARIABLES
    now,               \* wall clock, whole seconds
    frac,              \* 1 if the clock has a non-zero sub-second part, else 0
    snapCat,           \* every snapshot the array ever held: oid -> descriptor
    liveSnaps,         \* oids of the snapshots currently on the array
    shareCat,          \* every share the array ever held: oid -> descriptor
    liveShares,        \* oids of the shares currently on the array
    manifest,          \* the manifest file (VEEAM_SNAPSHOT_INFO)
    pc,                \* position of the running script
    cfg,               \* environment of the running script
    i,                 \* loop index of main()
    created_snapshots, \* main(): list built by pre / loaded by post
    should_cleanup,    \* post main(): the cleanup decision
    deleted_count,     \* post main(): successful manifest snapshot deletes
    filesystems,       \* post main(): filesystem ids left to sweep
    virtual_servers,   \* post main(): virtual server ids left to sweep
    sweepRan,          \* post main(): the retention block was entered
    reqs,              \* requests main() has sent to the array, in order
    sweepReqs,         \* requests the retention sweeps have sent
    seen,              \* objects a retention sweep has evaluated: <<kind, oid>>
    warned,            \* objects a retention sweep logged a warning for: <<kind, oid>>
    exitCode,          \* -1 while running, else the process exit status
    swept,             \* post main(): targets the retention sweep has visited
    faults,            \* failing / anomalous array responses used so far
    journal            \* the script invocations that have ended, oldest first

vars == <<now, frac, snapCat, liveSnaps, shareCat, liveShares, manifest, pc, cfg, i,
          created_snapshots, should_cleanup, deleted_count, filesystems,
          virtual_servers, sweepRan, reqs, sweepReqs, seen, warned, exitCode,
          swept, faults, journal>>

----
\* Bounds of the model
MaxFaults    == 1    \* failing or anomalous array responses in one behaviour
MaxRefs      == 2    \* filesystem references in HNAS_FILESYSTEMS
MaxTicks     == 1    \* seconds the clock may advance past StartTime
MaxRetention == 2    \* largest HNAS_RETENTION_DAYS tried
DaySecs      == 2    \* clock units per day (scaled down from 86400)
StartTime    == 5    \* clock reading in the initial state

\* Response statuses of the array; TransportErr stands for a timeout or a
\* connection failure (no HTTP response at all)
TransportErr == 0
Statuses     == {204, 404, 500, TransportErr}

----
\* The array's filesystems, in the order the listing returns them
Filesystems == << [filesystemId |-> "fsA", label |-> "alpha", virtualServerId |-> "vs1"],
                  [filesystemId |-> "fsB", label |-> "beta",  virtualServerId |-> "vs2"],
                  [filesystemId |-> "fsC", label |-> "beta",  virtualServerId |-> "vs1"] >>

NoFs == [ok |-> FALSE, filesystemId |-> "", label |-> "", virtualServerId |-> ""]

FoundFs(rec) == [ok |-> TRUE, filesystemId |-> rec.filesystemId, label |-> rec.label,
                 virtualServerId |-> rec.virtualServerId]

\* get_filesystem_info: the detail of one filesystem, None on any failure
get_filesystem_info(filesystem_id, respOk) ==
    LET hits == {k \in 1..Len(Filesystems) : Filesystems[k].filesystemId = filesystem_id}
    IN IF respOk /\ hits # {}
       THEN FoundFs(Filesystems[CHOOSE k \in hits : TRUE])
       ELSE NoFs

\* get_filesystem_by_name: linear scan of the listing, first label match wins
RECURSIVE ScanLabel(_, _)
ScanLabel(name, k) ==
    IF k > Len(Filesystems) THEN NoFs
    ELSE IF Filesystems[k].label = name THEN FoundFs(Filesystems[k])
    ELSE ScanLabel(name, k + 1)

get_filesystem_by_name(filesystem_name, respOk) ==
    IF respOk THEN ScanLabel(filesystem_name, 1) ELSE NoFs

\* A filesystem reference: hex = it has the 32-hex-character shape
RefSet == { [hex |-> TRUE,  text |-> "fsA"],
            [hex |-> FALSE, text |-> "beta"],
            [hex |-> FALSE, text |-> "ghost"] }

RECURSIVE SeqsUpTo(_, _)
SeqsUpTo(S, n) ==
    IF n = 0 THEN {<<>>}
    ELSE LET shorter == SeqsUpTo(S, n - 1)
         IN shorter \cup {Append(s, x) : s \in {t \in shorter : Len(t) = n - 1}, x \in S}

RefSeqs == SeqsUpTo(RefSet, MaxRefs)

\* main(): resolution of one reference to a filesystem (id path / label path)
ResolveRef(ref, respOk) ==
    IF ref.hex THEN get_filesystem_info(ref.text, respOk)
    ELSE get_filesystem_by_name(ref.text, respOk)

----
\* Creation time as the listing reports it: an integer, a string, absent or null
CtInt(v) == [k |-> "int", v |-> v]
CtStr(v) == [k |-> "str", v |-> v]    \* numeric string
CtBad    == [k |-> "bad", v |-> 0]    \* non-numeric string
CtNone   == [k |-> "none", v |-> 0]   \* no creationTime field
CtNull   == [k |-> "null", v |-> 0]   \* JSON null

\* Share names are token sequences joined by '_': words (strings, written as
\* sequences of fragments so that a prefix test is a real prefix test), and
\* the date token d and time token h that strftime('%Y%m%d') / ('%H%M%S') print
DateTok(d) == [t |-> "date", v |-> d]
TimeTok(h) == [t |-> "time", v |-> h]
WordTok(w) == [t |-> "word", v |-> w]

\* datetime.now().strftime('%Y%m%d_%H%M%S'), as the two tokens it prints
Strftime(t) == << DateTok(t \div DaySecs), TimeTok(t % DaySecs) >>

InitSnapCat ==
    << [fs |-> "fsA", ct |-> CtInt(1),  hasOid |-> TRUE],
       [fs |-> "fsA", ct |-> CtBad,     hasOid |-> TRUE],
       [fs |-> "fsA", ct |-> CtStr(2),  hasOid |-> TRUE],
       [fs |-> "fsA", ct |-> CtNone,    hasOid |-> TRUE],
       [fs |-> "fsA", ct |-> CtInt(3),  hasOid |-> TRUE],
       [fs |-> "fsB", ct |-> CtInt(0),  hasOid |-> FALSE],
       [fs |-> "fsB", ct |-> CtInt(2),  hasOid |-> TRUE],
       [fs |-> "fsB", ct |-> CtNull,    hasOid |-> TRUE],
       [fs |-> "fsB", ct |-> CtInt(0),  hasOid |-> TRUE] >>

InitShareCat ==
    << [vs |-> "vs1", name |-> <<WordTok(<<"Veeam">>), DateTok(0), TimeTok(1)>>, hasOid |-> TRUE],
       [vs |-> "vs1", name |-> <<WordTok(<<"Veeam">>), WordTok(<<"bad">>)>>,         hasOid |-> TRUE],
       [vs |-> "vs1", name |-> <<WordTok(<<"Veeam">>), DateTok(1), TimeTok(0)>>, hasOid |-> TRUE],
       [vs |-> "vs1", name |-> <<WordTok(<<"Other">>), DateTok(0), TimeTok(0)>>, hasOid |-> TRUE],
       [vs |-> "vs2", name |-> <<WordTok(<<"Veeam">>), WordTok(<<"x">>), WordTok(<<"bad">>)>>, hasOid |-> TRUE],
       [vs |-> "vs2", name |-> <<WordTok(<<"Veeam", "Old">>), DateTok(0), TimeTok(0)>>,   hasOid |-> TRUE],
       [vs |-> "vs2", name |-> <<WordTok(<<"Veeam">>), DateTok(1), TimeTok(1)>>, hasOid |-> TRUE] >>

NoManifest == [st |-> "absent", snapshots |-> <<>>]

NoCfg == [phase |-> "none", credsOk |-> FALSE, filesystems |-> <<>>,
          create_smb_share |-> FALSE, pathHasDir |-> FALSE, job_result |-> "",
          cleanup_on_success |-> FALSE, cleanup_on_failure |-> FALSE,
          retention_days |-> 0]

Init ==
    /\ now = StartTime
    /\ frac = 0
    /\ snapCat = InitSnapCat
    /\ liveSnaps = 1..Len(InitSnapCat)
    /\ shareCat = InitShareCat
    /\ liveShares = 1..Len(InitShareCat)
    /\ manifest = NoManifest
    /\ pc = "idle"
    /\ cfg = NoCfg
    /\ i = 0
    /\ created_snapshots = <<>>
    /\ should_cleanup = FALSE
    /\ deleted_count = 0
    /\ filesystems = {}
    /\ virtual_servers = {}
    /\ sweepRan = FALSE
    /\ reqs = <<>>
    /\ sweepReqs = {}
    /\ seen = {}
    /\ warned = {}
    /\ exitCode = -1
    /\ swept = {}
    /\ faults = 0
    /\ journal = <<>>

----
\* One request sent to the array and what came back.
\*   op     "probe", "create_snapshot", "create_share", "delete_snapshot", "delete_share"
\*   oid    the object created or addressed (0: none)
\*   status the response status (TransportErr: no response)
\*   ok     what the client method returned to main(), as a truth value
\*   via    "pre", "manifest" or "sweep": the part of main() that called
\*   at, frac  the clock when a sweep computed its cutoff (frac: the clock
\*          had a non-zero sub-second part)
Req(op, oid, status, ok, via, at, f) ==
    [op |-> op, oid |-> oid, status |-> status, ok |-> ok, via |-> via,
     at |-> at, frac |-> f]

Cost(nominal) == IF nominal THEN 0 ELSE 1

\* response.raise_for_status(): raises HTTPError for 4xx and 5xx
RaisesForStatus(status) == status >= 400 /\ status < 600

\* test_connection without response.raise_for_status(): any answer passes
test_connection_AnyAnswer(status) == status # TransportErr

\* test_connection: True iff the device probe answered without error
test_connection(status) == status # TransportErr /\ ~RaisesForStatus(status)

SharePrefix == <<"Veeam">>    \* HNAS_SMB_SHARE_NAME

\* What a create call hands back, by the shape of the array's answer:
\*   "full"  2xx with a descriptor carrying objectId
\*   "nooid" 2xx with a descriptor that lacks objectId
\*   "empty" 2xx without a descriptor (the method returns {})
\*   "fail"  HTTP error or transport failure (the method returns None)
CreateOutcomes == {"full", "nooid", "empty", "fail"}

\* create_snapshot / create_smb_share: is the returned descriptor truthy
DescriptorTruthy(outcome) == outcome \in {"full", "nooid"}

\* snapshot.get('objectId', '') / smb_share.get('objectId', ''); 0 stands for ''
DescriptorOid(outcome, oid) == IF outcome = "full" THEN oid ELSE 0

\* The array carried the create out (any 2xx answer)
ArrayCreated(outcome) == outcome # "fail"

CreateStatus(outcome) == IF outcome = "fail" THEN 500 ELSE 204

PreConfigs ==
    [phase : {"pre"}, credsOk : BOOLEAN, filesystems : RefSeqs,
     create_smb_share : BOOLEAN, pathHasDir : BOOLEAN, job_result : {""},
     cleanup_on_success : {FALSE}, cleanup_on_failure : {FALSE},
     retention_days : {0}]

\* pre main(), lines 246-283: configuration, validation, probe
PreStart ==
    /\ pc = "idle"
    /\ \E c \in PreConfigs, probe \in {204, 500} :
         /\ faults + Cost(probe = 204) <= MaxFaults
         /\ cfg' = c
         /\ created_snapshots' = <<>>
         /\ i' = 1
         /\ IF ~c.credsOk \/ c.filesystems = <<>>
            THEN /\ probe = 204
                 /\ reqs' = <<>>
                 /\ exitCode' = 1
                 /\ pc' = "pre_done"
                 /\ faults' = faults
            ELSE /\ reqs' = << Req("probe", 0, probe, test_connection(probe), "pre", now, 0) >>
                 /\ faults' = faults + Cost(probe = 204)
                 /\ IF test_connection(probe)
                    THEN exitCode' = -1 /\ pc' = "pre_loop"
                    ELSE exitCode' = 1 /\ pc' = "pre_done"
    /\ UNCHANGED <<journal, now, frac, snapCat, liveSnaps, shareCat, liveShares, manifest,
                   should_cleanup, deleted_count, filesystems, virtual_servers, sweepRan,
                   sweepReqs, seen, warned, swept>>

\* The manifest entry main() builds at lines 331-350; 0 stands for ''
Entry(filesystem_id, snapshot_object_id, has_share, smb_share_object_id) ==
    [filesystem_id |-> filesystem_id, snapshot_object_id |-> snapshot_object_id,
     has_share |-> has_share, smb_share_object_id |-> smb_share_object_id]

\* pre main(), lines 285-357: one iteration of the loop over the references
PreIter ==
    /\ pc = "pre_loop"
    /\ i <= Len(cfg.filesystems)
    /\ \E lookupOk \in BOOLEAN, snap \in CreateOutcomes,
          infoOk \in BOOLEAN, share \in CreateOutcomes :
         LET fs       == ResolveRef(cfg.filesystems[i], lookupOk)
             snapOid  == Len(snapCat) + 1
             shareOid == Len(shareCat) + 1
             snapshot == DescriptorTruthy(snap)
             wantShare == snapshot /\ cfg.create_smb_share
             fs_info  == get_filesystem_info(fs.filesystemId, infoOk)
             posted   == wantShare /\ fs_info.ok
             smb_share == posted /\ DescriptorTruthy(share)
             snapReq  == Req("create_snapshot", IF ArrayCreated(snap) THEN snapOid ELSE 0,
                             CreateStatus(snap), snapshot, "pre", now, 0)
             shareReq == Req("create_share", IF ArrayCreated(share) THEN shareOid ELSE 0,
                             CreateStatus(share), smb_share, "pre", now, 0)
             cost     == Cost(lookupOk)
                         + (IF fs.ok THEN Cost(snap = "full") ELSE 0)
                         + (IF wantShare THEN Cost(infoOk) ELSE 0)
                         + (IF posted THEN Cost(share = "full") ELSE 0)
         IN /\ faults + cost <= MaxFaults
            /\ faults' = faults + cost
            \* choices that are never looked at stay nominal
            /\ fs.ok \/ snap = "full"
            /\ wantShare \/ infoOk
            /\ posted \/ share = "full"
            /\ IF fs.ok
               THEN /\ reqs' = reqs \o <<snapReq>> \o (IF posted THEN <<shareReq>> ELSE <<>>)
                    /\ IF ArrayCreated(snap)
                       THEN /\ snapCat' = Append(snapCat,
                                   [fs |-> fs.filesystemId, ct |-> CtInt(now), hasOid |-> TRUE])
                            /\ liveSnaps' = liveSnaps \cup {snapOid}
                       ELSE UNCHANGED <<snapCat, liveSnaps>>
                    /\ IF posted /\ ArrayCreated(share)
                       THEN /\ shareCat' = Append(shareCat,
                                   [vs |-> fs_info.virtualServerId,
                                    name |-> <<WordTok(SharePrefix)>> \o Strftime(now),
                                    hasOid |-> TRUE])
                            /\ liveShares' = liveShares \cup {shareOid}
                       ELSE UNCHANGED <<shareCat, liveShares>>
                    /\ created_snapshots' =
                         IF snapshot
                         THEN Append(created_snapshots,
                                 Entry(fs.filesystemId, DescriptorOid(snap, snapOid), smb_share,
                                       IF smb_share THEN DescriptorOid(share, shareOid) ELSE 0))
                         ELSE created_snapshots
               ELSE UNCHANGED <<reqs, snapCat, liveSnaps, shareCat, liveShares,
                                created_snapshots>>
    /\ i' = i + 1
    /\ UNCHANGED <<journal, now, frac, manifest, pc, cfg, should_cleanup, deleted_count,
                   filesystems, virtual_servers, sweepRan, sweepReqs, seen, warned,
                   exitCode, swept>>

\* lines 363-371 with the file opened for appending to what it held
WriteManifest_Append(entries) ==
    [st |-> "ok", snapshots |-> (IF manifest.st = "ok" THEN manifest.snapshots ELSE <<>>)
                                \o entries]

\* pre main(), lines 363-371: open(path, 'w') and json.dump replace whatever
\* the file held
WriteManifest(entries) == [st |-> "ok", snapshots |-> entries]

\* pre main(), lines 359-379: os.makedirs(os.path.dirname(path)) raises
\* FileNotFoundError when the path has no directory part, which ends the
\* process with a traceback before the file is opened; otherwise the
\* manifest is written and the exit status follows the number of entries
PreSave ==
    /\ pc = "pre_loop"
    /\ i > Len(cfg.filesystems)
    /\ IF cfg.pathHasDir
       THEN /\ manifest' = WriteManifest(created_snapshots)
            /\ exitCode' = IF Len(created_snapshots) = 0 THEN 1 ELSE 0
       ELSE /\ manifest' = manifest
            /\ exitCode' = 1
    /\ pc' = "pre_done"
    /\ UNCHANGED <<journal, now, frac, snapCat, liveSnaps, shareCat, liveShares, cfg, i,
                   created_snapshots, should_cleanup, deleted_count, filesystems,
                   virtual_servers, sweepRan, reqs, sweepReqs, seen, warned, swept,
                   faults>>

\* The wall clock advances between two iterations of the pre-phase loop
Tick ==
    /\ pc = "pre_loop"
    /\ now < StartTime + MaxTicks
    /\ now' = now + 1
    /\ UNCHANGED <<journal, frac, snapCat, liveSnaps, shareCat, liveShares, manifest, pc, cfg, i,
                   created_snapshots, should_cleanup, deleted_count, filesystems,
                   virtual_servers, sweepRan, reqs, sweepReqs, seen, warned, exitCode,
                   swept, faults>>

PreNext == PreStart \/ PreIter \/ PreSave \/ Tick

PreSpec == Init /\ [][PreNext]_vars

----
\* Post-phase: pure parts

JobResults == {"Success", "Warning", "Failed", "Unknown"}   \* "Unknown": variable unset

\* validate_backup_result with 'Warning' left out of the list at line 321
validate_backup_result_SuccessOnly(job_result) == job_result = "Success"

\* validate_backup_result: the first component of the returned pair
validate_backup_result(job_result) == job_result \in {"Success", "Warning"}

\* post main(), lines 380-383
ShouldCleanup(backup_success, cleanup_on_success, cleanup_on_failure) ==
    \/ (backup_success /\ cleanup_on_success)
    \/ (~backup_success /\ cleanup_on_failure)

\* delete_snapshot without the 404 branch of lines 189-191
delete_snapshot_NotFoundFails(status) ==
    status # TransportErr /\ ~RaisesForStatus(status)

\* delete_snapshot: the returned truth value, by what the DELETE produced
delete_snapshot(status) ==
    IF status = TransportErr THEN FALSE
    ELSE IF ~RaisesForStatus(status) THEN TRUE
    ELSE status = 404

\* delete_smb_share: the returned truth value, by what the DELETE produced
delete_smb_share(status) ==
    IF status = TransportErr THEN FALSE
    ELSE IF ~RaisesForStatus(status) THEN TRUE
    ELSE status = 404

\* What the array does with a DELETE it answers with the given status
ArrayDeletes(status) == status = 204

\* The answers the array can give to a DELETE of oid; all but the first are faults
DeleteNominal(live, oid) == IF oid \in live THEN 204 ELSE 404
DeleteAnswers(live, oid) == {DeleteNominal(live, oid), 500, TransportErr}

\* post main(), lines 367-377: the entries read from the manifest file
LoadManifest(m) == IF m.st = "ok" THEN m.snapshots ELSE <<>>

Range(f) == {f[k] : k \in DOMAIN f}

RECURSIVE Ascending(_)
Ascending(S) ==
    IF S = {} THEN <<>>
    ELSE LET m == CHOOSE x \in S : \A y \in S : x <= y
         IN <<m>> \o Ascending(S \ {m})

\* get_filesystem_snapshots: the listing of a filesystem, [] on any failure
get_filesystem_snapshots(filesystem_id, respOk) ==
    IF respOk
    THEN Ascending({o \in liveSnaps : snapCat[o].fs = filesystem_id})
    ELSE <<>>

\* NormalizeCt without the default of line 256: a snapshot that lacks
\* creationTime is skipped like one with a non-numeric string
NormalizeCt_NoneSkipped(ct) ==
    CASE ct.k = "int"  -> [kind |-> "value", v |-> ct.v]
      [] ct.k = "str"  -> [kind |-> "value", v |-> ct.v]
      [] ct.k = "bad"  -> [kind |-> "skip",  v |-> 0]
      [] ct.k = "none" -> [kind |-> "skip",  v |-> 0]
      [] ct.k = "null" -> [kind |-> "raise", v |-> 0]

\* NormalizeCt without the 'continue' of line 263: a non-numeric string is
\* compared as 0
NormalizeCt_BadAsZero(ct) ==
    CASE ct.k = "int"  -> [kind |-> "value", v |-> ct.v]
      [] ct.k = "str"  -> [kind |-> "value", v |-> ct.v]
      [] ct.k = "bad"  -> [kind |-> "value", v |-> 0]
      [] ct.k = "none" -> [kind |-> "value", v |-> 0]
      [] ct.k = "null" -> [kind |-> "raise", v |-> 0]

\* cleanup_old_snapshots, lines 257-263: the creation time as compared.
\*   "value"  an integer to compare       "skip"  ValueError: warn, continue
\*   "raise"  the comparison raises TypeError (caught at line 272)
NormalizeCt(ct) ==
    CASE ct.k = "int"  -> [kind |-> "value", v |-> ct.v]
      [] ct.k = "str"  -> [kind |-> "value", v |-> ct.v]
      [] ct.k = "bad"  -> [kind |-> "skip",  v |-> 0]
      [] ct.k = "none" -> [kind |-> "value", v |-> 0]
      [] ct.k = "null" -> [kind |-> "raise", v |-> 0]

\* cleanup_old_snapshots, line 252
CutoffTime(t, retention_days) == t - retention_days * DaySecs

\* line 265 with <= for <
SnapshotIsOld_OrEqual(creation_time, cutoff_time) == creation_time <= cutoff_time

\* cleanup_old_snapshots, line 265
SnapshotIsOld(creation_time, cutoff_time) == creation_time < cutoff_time

\* cleanup_old_snapshots, lines 255-268: the loop over the listing from
\* position k on; resp gives the array's answer to each DELETE.  Yields the
\* requests sent, the oids the array removed and the positions evaluated.
RECURSIVE SnapshotLoop(_, _, _, _, _)
SnapshotLoop(snapshots, k, cutoff_time, resp, acc) ==
    IF k > Len(snapshots) THEN acc
    ELSE LET oid == snapshots[k]
             n   == NormalizeCt(snapCat[oid].ct)
             visited == [acc EXCEPT !.seen = @ \cup {oid}]
         IN IF n.kind = "raise" THEN acc
            ELSE IF n.kind = "skip"
            THEN SnapshotLoop(snapshots, k + 1, cutoff_time, resp,
                              [visited EXCEPT !.warned = @ \cup {oid}])
            ELSE IF SnapshotIsOld(n.v, cutoff_time) /\ snapCat[oid].hasOid
            THEN SnapshotLoop(snapshots, k + 1, cutoff_time, resp,
                    [visited EXCEPT
                       !.reqs = Append(@, Req("delete_snapshot", oid, resp[oid],
                                              delete_snapshot(resp[oid]), "sweep", now, 0)),
                       !.gone = IF ArrayDeletes(resp[oid]) THEN @ \cup {oid} ELSE @])
            ELSE SnapshotLoop(snapshots, k + 1, cutoff_time, resp, visited)

NoSweep == [reqs |-> <<>>, gone |-> {}, seen |-> {}, warned |-> {}]

cleanup_old_snapshots(filesystem_id, retention_days, listOk, resp) ==
    SnapshotLoop(get_filesystem_snapshots(filesystem_id, listOk), 1,
                 CutoffTime(now, retention_days), resp, NoSweep)

\* str.startswith on words
StartsWith(w, prefix) ==
    Len(w) >= Len(prefix) /\ SubSeq(w, 1, Len(prefix)) = prefix

\* get_virtual_server_smb_shares: the shares of a virtual server whose name
\* starts with the prefix, [] on any failure
get_virtual_server_smb_shares(virtual_server_id, share_name_prefix, respOk) ==
    IF respOk
    THEN Ascending({o \in liveShares :
                       /\ shareCat[o].vs = virtual_server_id
                       /\ shareCat[o].name[1].t = "word"
                       /\ StartsWith(shareCat[o].name[1].v, share_name_prefix)})
    ELSE <<>>

\* cleanup_old_smb_shares, lines 291-296: split on '_' and strptime of the
\* last two parts.  "none": fewer than three parts, nothing is done;
\* "error": strptime raises ValueError; "date": the parsed time, in seconds
ParseShareName(name) ==
    IF Len(name) >= 3
    THEN LET date_part == name[Len(name) - 1]
             time_part == name[Len(name)]
         IN IF date_part.t = "date" /\ time_part.t = "time"
            THEN [kind |-> "date", v |-> date_part.v * DaySecs + time_part.v]
            ELSE [kind |-> "error", v |-> 0]
    ELSE [kind |-> "none", v |-> 0]

\* line 298 with <= for <
ShareIsOld_OrEqual(share_date, t, f, retention_days) ==
    2 * share_date <= 2 * CutoffTime(t, retention_days) + f

\* cleanup_old_smb_shares, line 298: share_date < cutoff_date, where the
\* cutoff keeps the clock's sub-second part (frac) and share_date has none
ShareIsOld(share_date, t, f, retention_days) ==
    2 * share_date < 2 * CutoffTime(t, retention_days) + f

\* cleanup_old_smb_shares, lines 286-306: the loop over the matching shares
RECURSIVE ShareLoop(_, _, _, _, _)
ShareLoop(shares, k, retention_days, resp, acc) ==
    IF k > Len(shares) THEN acc
    ELSE LET oid == shares[k]
             p   == ParseShareName(shareCat[oid].name)
             visited == [acc EXCEPT !.seen = @ \cup {oid}]
         IN IF p.kind = "error"
            THEN ShareLoop(shares, k + 1, retention_days, resp,
                           [visited EXCEPT !.warned = @ \cup {oid}])
            ELSE IF /\ p.kind = "date"
                    /\ ShareIsOld(p.v, now, frac, retention_days)
                    /\ shareCat[oid].hasOid
            THEN ShareLoop(shares, k + 1, retention_days, resp,
                    [visited EXCEPT
                       !.reqs = Append(@, Req("delete_share", oid, resp[oid],
                                              delete_smb_share(resp[oid]), "sweep", now, frac)),
                       !.gone = IF ArrayDeletes(resp[oid]) THEN @ \cup {oid} ELSE @])
            ELSE ShareLoop(shares, k + 1, retention_days, resp, visited)

cleanup_old_smb_shares(virtual_server_id, share_name_prefix, retention_days, listOk, resp) ==
    ShareLoop(get_virtual_server_smb_shares(virtual_server_id, share_name_prefix, listOk),
              1, retention_days, resp, NoSweep)

\* lines 411-419 with every filesystem of the array for the entries' own
ManifestTargets_AllFilesystems(entries, bad) ==
    LET fss == {Filesystems[k].filesystemId : k \in DOMAIN Filesystems}
        inf(f) == get_filesystem_info(f, f \notin bad)
    IN [fss |-> fss,
        vss |-> {inf(f).virtualServerId : f \in {g \in fss : inf(g).ok}} \ {""}]

\* post main(), lines 411-419: sweep targets taken from the manifest entries;
\* bad = the filesystems whose detail lookup fails
ManifestTargets(entries, bad) ==
    LET fss == {entries[k].filesystem_id : k \in DOMAIN entries} \ {""}
        inf(f) == get_filesystem_info(f, f \notin bad)
    IN [fss |-> fss,
        vss |-> {inf(f).virtualServerId : f \in {g \in fss : inf(g).ok}} \ {""}]

\* post main(), lines 422-447: sweep targets taken from HNAS_FILESYSTEMS;
\* bad = the positions whose lookup fails
RECURSIVE FallbackTargets(_, _, _, _)
FallbackTargets(refs, k, bad, acc) ==
    IF k > Len(refs) THEN acc
    ELSE LET fs_info == ResolveRef(refs[k], k \notin bad)
         IN FallbackTargets(refs, k + 1, bad,
              IF refs[k].hex
              THEN [fss |-> acc.fss \cup {refs[k].text},
                    vss |-> IF fs_info.ok THEN acc.vss \cup {fs_info.virtualServerId}
                            ELSE acc.vss]
              ELSE IF fs_info.ok
              THEN [fss |-> acc.fss \cup {fs_info.filesystemId},
                    vss |-> acc.vss \cup {fs_info.virtualServerId}]
              ELSE acc)

----
\* Post-phase: main()

PostConfigs ==
    [phase : {"post"}, credsOk : BOOLEAN, filesystems : {<<>>},
     create_smb_share : {FALSE}, pathHasDir : {TRUE}, job_result : JobResults,
     cleanup_on_success : BOOLEAN, cleanup_on_failure : BOOLEAN,
     retention_days : -1..MaxRetention]

\* post main(), lines 326-385: result, configuration, validation, probe,
\* manifest load, decision
PostStart ==
    /\ pc = "idle"
    /\ \E c \in PostConfigs, probe \in {204, 500} :
         /\ faults + Cost(probe = 204) <= MaxFaults
         /\ cfg' = c
         /\ IF ~c.credsOk
            THEN /\ probe = 204
                 /\ reqs' = <<>>
                 /\ exitCode' = 1
                 /\ pc' = "post_done"
                 /\ faults' = faults
                 /\ created_snapshots' = <<>>
                 /\ should_cleanup' = FALSE
            ELSE /\ reqs' = << Req("probe", 0, probe, test_connection(probe), "post", now, 0) >>
                 /\ faults' = faults + Cost(probe = 204)
                 /\ IF test_connection(probe)
                    THEN /\ exitCode' = -1
                         /\ pc' = "post_manifest"
                         /\ created_snapshots' = LoadManifest(manifest)
                         /\ should_cleanup' =
                              ShouldCleanup(validate_backup_result(c.job_result),
                                            c.cleanup_on_success, c.cleanup_on_failure)
                    ELSE /\ exitCode' = 1
                         /\ pc' = "post_done"
                         /\ created_snapshots' = <<>>
                         /\ should_cleanup' = FALSE
    /\ i' = 1
    /\ deleted_count' = 0
    /\ UNCHANGED <<journal, now, frac, snapCat, liveSnaps, shareCat, liveShares, manifest,
                   filesystems, virtual_servers, sweepRan, sweepReqs, seen, warned, swept>>

\* The configuration past line 385: the job result and the two policies are
\* not read again once should_cleanup is set, and the model drops them with
\* the first step taken after the decision
AfterDecision(c) ==
    [c EXCEPT !.job_result = "", !.cleanup_on_success = FALSE,
              !.cleanup_on_failure = FALSE]

\* lines 391-400 with the snapshot deleted before its share
EntryRequests_SnapshotFirst(snapshot_info, shareSt, snapSt) ==
    LET smb_share_object_id == IF snapshot_info.has_share
                               THEN snapshot_info.smb_share_object_id ELSE 0
        snapshot_object_id  == snapshot_info.snapshot_object_id
    IN (IF snapshot_object_id # 0
        THEN << Req("delete_snapshot", snapshot_object_id, snapSt,
                    delete_snapshot(snapSt), "manifest", now, 0) >>
        ELSE <<>>)
       \o (IF smb_share_object_id # 0
           THEN << Req("delete_share", smb_share_object_id, shareSt,
                       delete_smb_share(shareSt), "manifest", now, 0) >>
           ELSE <<>>)

\* lines 391-400 without the share delete of lines 392-395
EntryRequests_SnapshotOnly(snapshot_info, shareSt, snapSt) ==
    IF snapshot_info.snapshot_object_id # 0
    THEN << Req("delete_snapshot", snapshot_info.snapshot_object_id, snapSt,
                delete_snapshot(snapSt), "manifest", now, 0) >>
    ELSE <<>>

\* post main(), lines 391-400: the DELETE requests sent for one manifest
\* entry, in order, given the array's answers
EntryRequests(snapshot_info, shareSt, snapSt) ==
    LET smb_share_object_id == IF snapshot_info.has_share
                               THEN snapshot_info.smb_share_object_id ELSE 0
        snapshot_object_id  == snapshot_info.snapshot_object_id
    IN (IF smb_share_object_id # 0
        THEN << Req("delete_share", smb_share_object_id, shareSt,
                    delete_smb_share(shareSt), "manifest", now, 0) >>
        ELSE <<>>)
       \o (IF snapshot_object_id # 0
           THEN << Req("delete_snapshot", snapshot_object_id, snapSt,
                       delete_snapshot(snapSt), "manifest", now, 0) >>
           ELSE <<>>)

\* lines 399-401 with an entry that has no snapshot identifier counted too
CountAfter_CountsSkipped(count, snapshot_object_id, snapSt) ==
    IF snapshot_object_id = 0 \/ delete_snapshot(snapSt) THEN count + 1 ELSE count

\* post main(), lines 399-401: the count after one manifest entry
CountAfter(count, snapshot_object_id, snapSt) ==
    IF snapshot_object_id # 0 /\ delete_snapshot(snapSt) THEN count + 1 ELSE count

\* line 404 with != for >
RetentionEnabled_NonZero(retention_days) == retention_days # 0

\* post main(), line 404
RetentionEnabled(retention_days) == retention_days > 0

\* line 387 without the should_cleanup operand
ManifestCleanupPending_NoGate ==
    created_snapshots # <<>> /\ i <= Len(created_snapshots)

\* post main(), line 387
ManifestCleanupPending ==
    should_cleanup /\ created_snapshots # <<>> /\ i <= Len(created_snapshots)

\* post main(), lines 390-401: one iteration of the manifest-driven cleanup
PostManifestIter ==
    /\ pc = "post_manifest"
    /\ ManifestCleanupPending
    /\ LET snapshot_info == created_snapshots[i]
           smb_share_object_id == IF snapshot_info.has_share
                                  THEN snapshot_info.smb_share_object_id ELSE 0
           snapshot_object_id  == snapshot_info.snapshot_object_id
       IN \E shareSt \in DeleteAnswers(liveShares, smb_share_object_id),
             snapSt  \in DeleteAnswers(liveSnaps, snapshot_object_id) :
            LET shareNom == shareSt = DeleteNominal(liveShares, smb_share_object_id)
                snapNom  == snapSt = DeleteNominal(liveSnaps, snapshot_object_id)
                cost == (IF smb_share_object_id # 0 THEN Cost(shareNom) ELSE 0)
                        + (IF snapshot_object_id # 0 THEN Cost(snapNom) ELSE 0)
            IN /\ smb_share_object_id # 0 \/ shareNom
               /\ snapshot_object_id # 0 \/ snapNom
               /\ faults + cost <= MaxFaults
               /\ faults' = faults + cost
               /\ reqs' = reqs \o EntryRequests(snapshot_info, shareSt, snapSt)
               /\ liveShares' = IF smb_share_object_id # 0 /\ ArrayDeletes(shareSt)
                                THEN liveShares \ {smb_share_object_id} ELSE liveShares
               /\ liveSnaps' = IF snapshot_object_id # 0 /\ ArrayDeletes(snapSt)
                               THEN liveSnaps \ {snapshot_object_id} ELSE liveSnaps
               /\ deleted_count' = CountAfter(deleted_count, snapshot_object_id, snapSt)
    /\ i' = i + 1
    /\ cfg' = AfterDecision(cfg)
    /\ UNCHANGED <<journal, now, frac, snapCat, shareCat, manifest, pc, created_snapshots,
                   should_cleanup, filesystems, virtual_servers, sweepRan, sweepReqs,
                   seen, warned, exitCode, swept>>

FsIds == {Filesystems[k].filesystemId : k \in DOMAIN Filesystems}

\* post main(), lines 403-447: the retention test and the choice of the
\* sweep targets; HNAS_FILESYSTEMS is read only on the fallback path
PostRetention ==
    /\ pc = "post_manifest"
    /\ ~ManifestCleanupPending
    /\ pc' = "post_sweep"
    /\ IF RetentionEnabled(cfg.retention_days)
       THEN /\ sweepRan' = TRUE
            /\ IF created_snapshots # <<>>
               THEN \E bad \in SUBSET FsIds :
                      LET t == ManifestTargets(created_snapshots, bad)
                      IN /\ bad \subseteq t.fss
                         /\ faults + Cardinality(bad) <= MaxFaults
                         /\ faults' = faults + Cardinality(bad)
                         /\ filesystems' = t.fss
                         /\ virtual_servers' = t.vss
                         /\ cfg' = AfterDecision(cfg)
               ELSE \E refs \in RefSeqs, bad \in SUBSET (1..MaxRefs) :
                      LET t == FallbackTargets(refs, 1, bad, [fss |-> {}, vss |-> {}])
                      IN /\ bad \subseteq 1..Len(refs)
                         /\ faults + Cardinality(bad) <= MaxFaults
                         /\ faults' = faults + Cardinality(bad)
                         /\ filesystems' = t.fss
                         /\ virtual_servers' = t.vss
                         /\ cfg' = [AfterDecision(cfg) EXCEPT !.filesystems = refs]
       ELSE /\ cfg' = AfterDecision(cfg)
            /\ UNCHANGED <<sweepRan, filesystems, virtual_servers, faults>>
    /\ UNCHANGED <<journal, now, frac, snapCat, liveSnaps, shareCat, liveShares, manifest, i,
                   created_snapshots, should_cleanup, deleted_count, reqs, sweepReqs,
                   seen, warned, exitCode, swept>>

FaultKinds == {500, TransportErr}

\* The oids a sweep sends a DELETE for (they do not depend on the answers)
Addressed(r) == {r.reqs[k].oid : k \in DOMAIN r.reqs}

\* post main(), lines 450-457: cleanup_old_snapshots for one filesystem of
\* the set (a Python set is walked in no particular order)
PostSweepSnapshots ==
    /\ pc = "post_sweep"
    /\ \E filesystem_id \in filesystems \ swept, listOk \in BOOLEAN :
       \E failing \in SUBSET Addressed(cleanup_old_snapshots(filesystem_id,
                           cfg.retention_days, listOk, [o \in liveSnaps |-> 204])),
          kind \in FaultKinds :
         LET resp == [o \in liveSnaps |-> IF o \in failing THEN kind ELSE 204]
             r == cleanup_old_snapshots(filesystem_id, cfg.retention_days, listOk, resp)
             cost == Cost(listOk) + Cardinality(failing)
         IN /\ failing = {} => kind = 500
            /\ faults + cost <= MaxFaults
            /\ faults' = faults + cost
            /\ sweepReqs' = sweepReqs \cup Range(r.reqs)
            /\ liveSnaps' = liveSnaps \ r.gone
            /\ seen' = seen \cup {<<"snapshot", o>> : o \in r.seen}
            /\ warned' = warned \cup {<<"snapshot", o>> : o \in r.warned}
            /\ swept' = swept \cup {filesystem_id}
    /\ UNCHANGED <<journal, now, frac, snapCat, shareCat, liveShares, manifest, pc, cfg, i,
                   created_snapshots, should_cleanup, deleted_count, filesystems,
                   virtual_servers, sweepRan, reqs, exitCode>>

\* post main(), lines 460-467: cleanup_old_smb_shares for one virtual server
PostSweepShares ==
    /\ pc = "post_sweep"
    /\ filesystems \subseteq swept
    /\ \E virtual_server_id \in virtual_servers \ swept, listOk \in BOOLEAN :
       \E failing \in SUBSET Addressed(cleanup_old_smb_shares(virtual_server_id,
                           SharePrefix, cfg.retention_days, listOk,
                           [o \in liveShares |-> 204])),
          kind \in FaultKinds :
         LET resp == [o \in liveShares |-> IF o \in failing THEN kind ELSE 204]
             r == cleanup_old_smb_shares(virtual_server_id, SharePrefix,
                                         cfg.retention_days, listOk, resp)
             cost == Cost(listOk) + Cardinality(failing)
         IN /\ failing = {} => kind = 500
            /\ faults + cost <= MaxFaults
            /\ faults' = faults + cost
            /\ sweepReqs' = sweepReqs \cup Range(r.reqs)
            /\ liveShares' = liveShares \ r.gone
            /\ seen' = seen \cup {<<"share", o>> : o \in r.seen}
            /\ warned' = warned \cup {<<"share", o>> : o \in r.warned}
            /\ swept' = swept \cup {virtual_server_id}
    /\ UNCHANGED <<journal, now, frac, snapCat, liveSnaps, shareCat, manifest, pc, cfg, i,
                   created_snapshots, should_cleanup, deleted_count, filesystems,
                   virtual_servers, sweepRan, reqs, exitCode>>

\* line 470 with created_snapshots for os.path.exists(snapshot_info_file)
ManifestRemovalDue_AfterEntries == should_cleanup /\ created_snapshots # <<>>

\* post main(), line 470: is the manifest file to be removed
ManifestRemovalDue == should_cleanup /\ manifest.st # "absent"

\* post main(), line 475: the warning logged when os.remove raises
RemoveWarning == <<"manifest", 0>>

\* post main(), lines 469-482: removal of the manifest file (os.remove may
\* fail, which is only logged) and the normal exit
PostFinish ==
    /\ pc = "post_sweep"
    /\ filesystems \cup virtual_servers \subseteq swept
    /\ \E removeOk \in BOOLEAN :
         IF ManifestRemovalDue
         THEN /\ manifest' = IF removeOk THEN NoManifest ELSE manifest
              /\ warned' = IF removeOk THEN warned ELSE warned \cup {RemoveWarning}
         ELSE removeOk /\ manifest' = manifest /\ warned' = warned
    /\ exitCode' = 0
    /\ pc' = "post_done"
    /\ UNCHANGED <<journal, now, frac, snapCat, liveSnaps, shareCat, liveShares, cfg, i,
                   created_snapshots, should_cleanup, deleted_count, filesystems,
                   virtual_servers, sweepRan, reqs, sweepReqs, seen, swept, faults>>

PostNext ==
    PostStart \/ PostManifestIter \/ PostRetention
    \/ PostSweepSnapshots \/ PostSweepShares \/ PostFinish

----
\* A post-phase started on what an earlier job left behind: the snapshots and
\* shares of that job on the array, and its manifest file

MaxEntries == 2    \* entries in the manifest file found by the post-phase

JobSnapCat ==
    << [fs |-> "fsA", ct |-> CtInt(StartTime - 1), hasOid |-> TRUE],
       [fs |-> "fsB", ct |-> CtInt(StartTime - 1), hasOid |-> TRUE],
       [fs |-> "fsC", ct |-> CtInt(StartTime - 1), hasOid |-> TRUE] >>

\* The third snapshot and the third share are gone from the array already
\* (an earlier post-phase deleted them and left the manifest behind)

JobShareCat ==
    << [vs |-> "vs1", name |-> <<WordTok(SharePrefix)>> \o Strftime(StartTime - 1),
        hasOid |-> TRUE],
       [vs |-> "vs1", name |-> <<WordTok(SharePrefix)>> \o Strftime(StartTime - 1),
        hasOid |-> TRUE],
       [vs |-> "vs1", name |-> <<WordTok(SharePrefix)>> \o Strftime(StartTime - 1),
        hasOid |-> TRUE] >>

JobSnap(k)  == Len(InitSnapCat) + k
JobShare(k) == Len(InitShareCat) + k

EntrySet ==
    { Entry("fsA", JobSnap(1), TRUE, JobShare(1)),
      Entry("fsB", JobSnap(2), FALSE, 0),
      Entry("fsA", 0, TRUE, JobShare(2)),
      Entry("fsC", JobSnap(3), TRUE, JobShare(3)) }

NoRepeat(s) == \A a, b \in DOMAIN s : a # b => s[a] # s[b]

InitManifests ==
    {NoManifest, [st |-> "corrupt", snapshots |-> <<>>]}
    \cup {[st |-> "ok", snapshots |-> es] :
            es \in {t \in SeqsUpTo(EntrySet, MaxEntries) : NoRepeat(t)}}

PostInit ==
    /\ now = StartTime
    /\ frac \in {0, 1}
    /\ snapCat = InitSnapCat \o JobSnapCat
    /\ shareCat = InitShareCat \o JobShareCat
    /\ liveSnaps = 1..Len(snapCat) \ {JobSnap(3)}
    /\ liveShares = 1..Len(shareCat) \ {JobShare(3)}
    /\ manifest \in InitManifests
    /\ pc = "idle"
    /\ cfg = NoCfg
    /\ i = 0
    /\ created_snapshots = <<>>
    /\ should_cleanup = FALSE
    /\ deleted_count = 0
    /\ filesystems = {}
    /\ virtual_servers = {}
    /\ sweepRan = FALSE
    /\ reqs = <<>>
    /\ sweepReqs = {}
    /\ seen = {}
    /\ warned = {}
    /\ exitCode = -1
    /\ swept = {}
    /\ faults = 0
    /\ journal = <<>>

PostSpec == PostInit /\ [][PostNext]_vars

----
\* One invocation of either script, started on what an earlier job left behind

RunManifests ==
    { NoManifest,
      [st |-> "ok", snapshots |-> << Entry("fsA", 0, TRUE, JobShare(2)),
                                     Entry("fsA", JobSnap(1), TRUE, JobShare(1)) >>] }

RunInit ==
    /\ PostInit
    /\ frac = 0
    /\ manifest \in RunManifests

RunNext ==
    PreStart \/ PreIter \/ PreSave \/ Tick
    \/ PostStart \/ PostManifestIter \/ PostRetention
    \/ PostSweepSnapshots \/ PostSweepShares \/ PostFinish

RunSpec == RunInit /\ [][RunNext]_vars

----
\* Several invocations in a row on one array, one manifest path and one
\* clock: the backup server runs the pre-phase script before each job and the
\* post-phase script after it

MaxRuns == 4    \* script invocations in one behaviour

\* HNAS_FILESYSTEMS of the jobs
JobRefSeqs ==
    { << [hex |-> FALSE, text |-> "beta"], [hex |-> TRUE, text |-> "fsA"] >> }

\* Environments of the jobs: credentials set, shares wanted, a manifest path
\* with a directory part, cleanup on success only, retention off or one day
JobPreConfigs ==
    {c \in PreConfigs :
        c.credsOk /\ c.create_smb_share /\ c.pathHasDir /\ c.filesystems \in JobRefSeqs}

JobPostConfigs ==
    {c \in PostConfigs :
        /\ c.credsOk
        /\ c.cleanup_on_success /\ ~c.cleanup_on_failure
        /\ c.job_result \in {"Success", "Failed"}
        /\ c.retention_days \in {0, 1}}

\* What the journal keeps of an invocation that has ended
Ended ==
    [phase |-> cfg.phase, entries |-> created_snapshots, reqs |-> reqs,
     exitCode |-> exitCode, should_cleanup |-> should_cleanup]

\* pre main() started by the backup server; the array answers the probe
JobPreStart ==
    /\ Len(journal) < MaxRuns
    /\ PreStart
    /\ cfg' \in JobPreConfigs
    /\ faults' = faults

\* pre main(), lines 285-357, on an array that answers every call as expected
JobPreIter == PreIter /\ faults' = faults

\* The invocations of one phase that have ended
EndedRuns(phase) == {k \in DOMAIN journal : journal[k].phase = phase}

\* post main() started by the backup server, after a job whose pre-phase
\* has run; the array answers the probe
JobPostStart ==
    /\ Len(journal) < MaxRuns
    /\ Cardinality(EndedRuns("post")) < Cardinality(EndedRuns("pre"))
    /\ PostStart
    /\ cfg' \in JobPostConfigs
    /\ faults' = faults

\* The post-phase of a job on an array that answers every call past the
\* probe as expected: lines 390-401, 403-447 (with the jobs'
\* HNAS_FILESYSTEMS), 450-457 and 460-467
JobPostManifestIter == PostManifestIter /\ faults' = faults

JobPostRetention ==
    /\ PostRetention
    /\ faults' = faults
    /\ cfg'.filesystems \in JobRefSeqs \cup {<<>>}

JobPostSweepSnapshots == PostSweepSnapshots /\ faults' = faults

JobPostSweepShares == PostSweepShares /\ faults' = faults

\* The process ends (sys.exit or the end of main()): everything it held in
\* memory is gone; the array, the manifest file and the clock stay
EndRun ==
    /\ pc \in {"pre_done", "post_done"}
    /\ journal' = Append(journal, Ended)
    /\ pc' = "idle"
    /\ cfg' = NoCfg
    /\ i' = 0
    /\ created_snapshots' = <<>>
    /\ should_cleanup' = FALSE
    /\ deleted_count' = 0
    /\ filesystems' = {}
    /\ virtual_servers' = {}
    /\ sweepRan' = FALSE
    /\ reqs' = <<>>
    /\ sweepReqs' = {}
    /\ seen' = {}
    /\ warned' = {}
    /\ exitCode' = -1
    /\ swept' = {}
    /\ UNCHANGED <<now, frac, snapCat, liveSnaps, shareCat, liveShares, manifest, faults>>

LifeNext ==
    JobPreStart \/ JobPreIter \/ PreSave
    \/ JobPostStart \/ JobPostManifestIter \/ JobPostRetention
    \/ JobPostSweepSnapshots \/ JobPostSweepShares \/ PostFinish
    \/ EndRun

LifeSpec == Init /\ [][LifeNext]_vars

----
\* Properties of the post-phase (checked under PostSpec)

DeleteOps == {"delete_snapshot", "delete_share"}

\* The requests the manifest-driven cleanup has sent (reqs minus the probe)
ManifestReqs == SubSeq(reqs, 2, Len(reqs))

\* The objects the array held when the post-phase started
InitiallyLiveSnaps  == (1..Len(snapCat)) \ {JobSnap(3)}
InitiallyLiveShares == (1..Len(shareCat)) \ {JobShare(3)}

ManifestAddressed(op, oid) ==
    \E k \in DOMAIN reqs : reqs[k].via = "manifest" /\ reqs[k].op = op /\ reqs[k].oid = oid

\* The creation time of a snapshot as a number: an integer, a numeric string
\* read as an integer, 0 when the field is absent
HasTime(ct) == ct.k \in {"int", "str", "none"}
TimeOf(ct)  == IF ct.k = "none" THEN 0 ELSE ct.v

\* The cutoff of a sweep run at clock reading t
Cutoff(t) == t - cfg.retention_days * DaySecs

\* A share name: does it start with the prefix, and the time its trailing
\* date and time tokens spell
Prefixed(name) ==
    /\ name[1].t = "word"
    /\ Len(name[1].v) >= Len(SharePrefix)
    /\ \A k \in 1..Len(SharePrefix) : name[1].v[k] = SharePrefix[k]
HasStamp(name) ==
    Len(name) >= 3 /\ name[Len(name) - 1].t = "date" /\ name[Len(name)].t = "time"
StampOf(name) == name[Len(name) - 1].v * DaySecs + name[Len(name)].v

\* Strictly before the cutoff, the cutoff being t seconds plus f half-seconds
StrictlyBefore(ts, t, f) == 2 * ts < 2 * Cutoff(t) + f

\* C1: right after the decision, should_cleanup is the truth table of
\* (succeeded, cleanup_on_success, cleanup_on_failure), where succeeded means
\* the job result is Success or Warning; an unset result is not succeeded
C1_DecisionTruthTable ==
    (pc = "post_manifest" /\ cfg.job_result # "") =>
        LET succeeded == cfg.job_result \in {"Success", "Warning"}
        IN /\ (succeeded /\ cfg.cleanup_on_success) => should_cleanup
           /\ (succeeded /\ ~cfg.cleanup_on_success) => ~should_cleanup
           /\ (~succeeded /\ cfg.cleanup_on_failure) => should_cleanup
           /\ (~succeeded /\ ~cfg.cleanup_on_failure) => ~should_cleanup

C1_Witness ==
    /\ pc = "post_manifest"
    /\ cfg.job_result = "Unknown"
    /\ cfg.cleanup_on_failure /\ ~cfg.cleanup_on_success
    /\ should_cleanup

\* C2: when should_cleanup is false or no manifest entry was loaded, no
\* request is sent for a manifest entry, and every request of the run is a
\* sweep deletion of an object whose time is strictly before the cutoff
C2_CleanupIsGated ==
    (cfg.phase = "post" /\ (~should_cleanup \/ created_snapshots = <<>>)) =>
        /\ \A k \in DOMAIN reqs : reqs[k].op \notin DeleteOps
        /\ \A r \in sweepReqs :
             /\ r.via = "sweep"
             /\ r.op = "delete_snapshot" =>
                  /\ HasTime(snapCat[r.oid].ct)
                  /\ StrictlyBefore(TimeOf(snapCat[r.oid].ct), r.at, 0)
             /\ r.op = "delete_share" =>
                  /\ HasStamp(shareCat[r.oid].name)
                  /\ StrictlyBefore(StampOf(shareCat[r.oid].name), r.at, r.frac)

C2_Witness ==
    /\ pc = "post_done"
    /\ ~should_cleanup
    /\ created_snapshots # <<>>
    /\ \E r \in sweepReqs : r.op = "delete_snapshot"
    /\ \E r \in sweepReqs : r.op = "delete_share"

\* The DELETE targets that the first n manifest entries call for: per entry,
\* in manifest order, the share (if it has an identifier) and then the snapshot
RECURSIVE ExpectedTargets(_, _)
ExpectedTargets(entries, n) ==
    IF n = 0 THEN <<>>
    ELSE LET e == entries[n]
         IN ExpectedTargets(entries, n - 1)
            \o (IF e.has_share /\ e.smb_share_object_id # 0
                THEN << <<"delete_share", e.smb_share_object_id>> >> ELSE <<>>)
            \o (IF e.snapshot_object_id # 0
                THEN << <<"delete_snapshot", e.snapshot_object_id>> >> ELSE <<>>)

\* C3: the manifest-driven cleanup sends, entry by entry in manifest order,
\* the share delete and then the snapshot delete, whatever the share delete
\* returned; the count is the number of snapshot deletes that returned success
C3_ManifestCleanupOrder ==
    (cfg.phase = "post" /\ should_cleanup /\ created_snapshots # <<>>) =>
        /\ [k \in 1..Len(ManifestReqs) |-> <<ManifestReqs[k].op, ManifestReqs[k].oid>>]
             = ExpectedTargets(created_snapshots, i - 1)
        /\ deleted_count =
             Cardinality({k \in DOMAIN reqs : reqs[k].op = "delete_snapshot" /\ reqs[k].ok})

C3_Witness ==
    /\ pc = "post_done"
    /\ Len(created_snapshots) = 2
    /\ deleted_count = 2
    /\ \E k \in 1..(Len(reqs) - 1) :
         /\ reqs[k].op = "delete_share" /\ ~reqs[k].ok
         /\ reqs[k + 1].op = "delete_snapshot" /\ reqs[k + 1].ok

\* C4: past validation and probe, the retention sweep runs if and only if
\* the retention window is positive; when it runs every target is swept
\* before the exit, when it does not nothing is swept
C4_SweepIffRetentionPositive ==
    (cfg.phase = "post" /\ pc \in {"post_sweep", "post_done"} /\ exitCode # 1) =>
        /\ sweepRan <=> cfg.retention_days > 0
        /\ ~sweepRan => (swept = {} /\ sweepReqs = {} /\ seen = {})
        /\ (sweepRan /\ pc = "post_done") => filesystems \cup virtual_servers \subseteq swept

C4_Witness ==
    /\ pc = "post_done"
    /\ exitCode = 0
    /\ sweepRan
    /\ ~should_cleanup
    /\ manifest.st = "absent"
    /\ sweepReqs # {}

\* C5: the snapshot sweep asks for the deletion of a snapshot only if its
\* creation time is strictly below the cutoff, and a snapshot that has left
\* the array was deleted for its manifest entry or was strictly older than
\* the cutoff
C5_SnapshotSweepStrict ==
    cfg.phase = "post" =>
        /\ \A r \in sweepReqs : r.op = "delete_snapshot" =>
             /\ HasTime(snapCat[r.oid].ct)
             /\ TimeOf(snapCat[r.oid].ct) < Cutoff(r.at)
        /\ \A o \in InitiallyLiveSnaps \ liveSnaps :
             \/ ManifestAddressed("delete_snapshot", o)
             \/ /\ sweepRan
                /\ HasTime(snapCat[o].ct)
                /\ TimeOf(snapCat[o].ct) < Cutoff(now)

C5_Witness ==
    /\ pc = "post_done"
    /\ \E o \in liveSnaps :
         /\ <<"snapshot", o>> \in seen
         /\ snapCat[o].ct.k = "int"
         /\ snapCat[o].ct.v = Cutoff(now)
         /\ \E r \in sweepReqs :
              /\ r.op = "delete_snapshot" /\ r.status = 204
              /\ snapCat[r.oid].fs = snapCat[o].fs
              /\ snapCat[r.oid].ct.k \in {"int", "str"}

\* C6: a snapshot whose creation time is a non-numeric string is never asked
\* to be deleted by the sweep and stays on the array; the sweep logs it and
\* goes on to the snapshots listed after it
C6_UnparsableSkipped ==
    cfg.phase = "post" =>
        \A b \in DOMAIN snapCat : snapCat[b].ct.k = "bad" =>
            /\ \A r \in sweepReqs : ~(r.op = "delete_snapshot" /\ r.oid = b)
            /\ (b \in InitiallyLiveSnaps /\ ~ManifestAddressed("delete_snapshot", b))
                 => b \in liveSnaps
            /\ <<"snapshot", b>> \in seen =>
                 /\ <<"snapshot", b>> \in warned
                 /\ \A o \in InitiallyLiveSnaps :
                      ( /\ o > b
                        /\ snapCat[o].fs = snapCat[b].fs
                        /\ ~ManifestAddressed("delete_snapshot", o)
                        /\ \A m \in b..o : snapCat[m].fs = snapCat[b].fs
                                             => snapCat[m].ct.k # "null" )
                      => <<"snapshot", o>> \in seen

C6_Witness ==
    \E b \in liveSnaps :
        /\ snapCat[b].ct.k = "bad"
        /\ <<"snapshot", b>> \in seen
        /\ \E r \in sweepReqs :
             /\ r.op = "delete_snapshot" /\ r.oid > b
             /\ snapCat[r.oid].fs = snapCat[b].fs

\* C7: the share sweep asks for the deletion of a share only if its name
\* starts with the prefix, ends in a date and a time that parse, and that
\* time is strictly before the cutoff; any other share stays on the array
\* unless its manifest entry had it deleted
C7_ShareSweepSafe ==
    cfg.phase = "post" =>
        /\ \A r \in sweepReqs : r.op = "delete_share" =>
             /\ Prefixed(shareCat[r.oid].name)
             /\ HasStamp(shareCat[r.oid].name)
             /\ StrictlyBefore(StampOf(shareCat[r.oid].name), r.at, r.frac)
        /\ \A o \in InitiallyLiveShares \ liveShares :
             \/ ManifestAddressed("delete_share", o)
             \/ /\ sweepRan
                /\ Prefixed(shareCat[o].name)
                /\ HasStamp(shareCat[o].name)
                /\ StrictlyBefore(StampOf(shareCat[o].name), now, frac)

C7_Witness ==
    /\ pc = "post_done"
    /\ frac = 0
    /\ \E o \in liveShares :
         /\ <<"share", o>> \in seen
         /\ HasStamp(shareCat[o].name)
         /\ StampOf(shareCat[o].name) = Cutoff(now)
    /\ \E u \in liveShares :
         <<"share", u>> \in seen /\ ~HasStamp(shareCat[u].name)
    /\ \E r \in sweepReqs : r.op = "delete_share" /\ r.status = 204

\* C8: a delete returns success on a 2xx answer and on 404, and failure on
\* any other error status and on a transport failure
C8_DeleteIdempotent ==
    \A r \in Range(reqs) \cup sweepReqs : r.op \in DeleteOps =>
        (r.ok <=> /\ r.status # TransportErr
                  /\ \/ (r.status >= 200 /\ r.status <= 299)
                     \/ r.status = 404)

C8_Witness ==
    /\ \E r \in Range(reqs) : r.op = "delete_snapshot" /\ r.status = 404 /\ r.ok
    /\ \E r \in Range(reqs) : r.op = "delete_share" /\ r.status = 404 /\ r.ok
    /\ \E r \in Range(reqs) \cup sweepReqs :
         r.op \in DeleteOps /\ r.status = TransportErr /\ ~r.ok

\* C11: the post-phase removes the manifest file only in a run that carried
\* out the manifest-driven cleanup of the entries the file held
C11_RemovedOnlyAfterCleanup ==
    [][ (manifest.st # "absent" /\ manifest'.st = "absent") =>
           /\ manifest.st = "ok"
           /\ should_cleanup
           /\ created_snapshots = manifest.snapshots
           /\ i > Len(created_snapshots) ]_vars

\* What holds of a removal: the decision was to clean up, and every entry
\* that could be loaded has been handled
RemovedOnlyWhenDecided ==
    [][ (manifest.st # "absent" /\ manifest'.st = "absent") =>
           /\ should_cleanup
           /\ created_snapshots = LoadManifest(manifest)
           /\ i > Len(created_snapshots) ]_vars

C18_UnparsableShareLogged ==
    cfg.phase = "post" =>
        \A o \in DOMAIN shareCat :
            (<<"share", o>> \in seen /\ ~HasStamp(shareCat[o].name)) =>
                /\ \A r \in sweepReqs : ~(r.op = "delete_share" /\ r.oid = o)
                /\ <<"share", o>> \in warned

\* What holds instead: such a share is never asked to be deleted, and it is
\* logged when its name has three parts or more
UnparsableShareSkipped ==
    cfg.phase = "post" =>
        \A o \in DOMAIN shareCat :
            (<<"share", o>> \in seen /\ ~HasStamp(shareCat[o].name)) =>
                /\ \A r \in sweepReqs : ~(r.op = "delete_share" /\ r.oid = o)
                /\ <<"share", o>> \in warned <=> Len(shareCat[o].name) >= 3

\* C19: a listed snapshot without a creation-time field is compared as 0:
\* with a positive cutoff the sweep asks for its deletion (if it has an
\* object identifier), with any other cutoff it does not; a snapshot whose
\* creation time is a non-numeric string is evaluated and never asked for
C19_MissingTimeIsZero ==
    cfg.phase = "post" =>
        \A o \in DOMAIN snapCat : <<"snapshot", o>> \in seen =>
            /\ snapCat[o].ct.k = "none" =>
                 ( (\E r \in sweepReqs : r.op = "delete_snapshot" /\ r.oid = o)
                   <=> (Cutoff(now) > 0 /\ snapCat[o].hasOid) )
            /\ snapCat[o].ct.k = "bad" =>
                 ~(\E r \in sweepReqs : r.op = "delete_snapshot" /\ r.oid = o)

C19_Witness ==
    /\ Cutoff(now) > 0
    /\ \E o \in DOMAIN snapCat :
         /\ snapCat[o].ct.k = "none"
         /\ o \notin liveSnaps
         /\ \E r \in sweepReqs : r.op = "delete_snapshot" /\ r.oid = o /\ r.status = 204
         /\ \E b \in liveSnaps :
              /\ snapCat[b].ct.k = "bad"
              /\ snapCat[b].fs = snapCat[o].fs
              /\ <<"snapshot", b>> \in seen


\* The virtual servers of a set of filesystem identifiers
VsOf(F) ==
    {Filesystems[k].virtualServerId : k \in {j \in DOMAIN Filesystems :
                                                Filesystems[j].filesystemId \in F}}

\* The identifiers a list of references names: the reference itself when it
\* has the identifier shape, else the first filesystem carrying the label
HexIds(refs) == {refs[k].text : k \in {j \in DOMAIN refs : refs[j].hex}}
LabelIds(refs) ==
    {Filesystems[k].filesystemId : k \in {j \in DOMAIN Filesystems :
        /\ \E n \in DOMAIN refs : ~refs[n].hex /\ refs[n].text = Filesystems[j].label
        /\ \A h \in 1..(j - 1) : Filesystems[h].label # Filesystems[j].label}}

\* C17: when the loaded manifest has entries the swept filesystems are the
\* distinct filesystem identifiers of the entries and the fallback list is
\* not read; otherwise they are the filesystems the fallback list resolves
\* to; virtual servers come from the lookups; what is swept is a target,
\* each target once, and at the exit every target has been swept
C17_SweepTargetSources ==
    (cfg.phase = "post" /\ sweepRan) =>
        /\ created_snapshots # <<>> =>
             /\ filesystems =
                  {created_snapshots[k].filesystem_id : k \in DOMAIN created_snapshots}
             /\ virtual_servers \subseteq VsOf(filesystems)
             /\ faults = 0 => virtual_servers = VsOf(filesystems)
             /\ cfg.filesystems = <<>>
        /\ created_snapshots = <<>> =>
             /\ manifest.st # "ok" \/ manifest.snapshots = <<>> \/ pc = "post_done"
             /\ HexIds(cfg.filesystems) \subseteq filesystems
             /\ filesystems \subseteq HexIds(cfg.filesystems) \cup LabelIds(cfg.filesystems)
             /\ virtual_servers \subseteq VsOf(HexIds(cfg.filesystems) \cup LabelIds(cfg.filesystems))
             /\ faults = 0 =>
                  /\ filesystems = HexIds(cfg.filesystems) \cup LabelIds(cfg.filesystems)
                  /\ virtual_servers = VsOf(filesystems)
        /\ swept \subseteq filesystems \cup virtual_servers
        /\ pc = "post_done" => swept = filesystems \cup virtual_servers

\* A sweep that took its targets from the fallback list because the manifest
\* file could not be read
C17_Witness ==
    /\ pc = "post_done"
    /\ sweepRan
    /\ manifest.st = "corrupt"
    /\ created_snapshots = <<>>
    /\ Len(cfg.filesystems) = 2
    /\ filesystems = {"fsA", "fsB"}
    /\ virtual_servers = {"vs1", "vs2"}
    /\ swept = filesystems \cup virtual_servers


----
\* Properties of the pre-phase (checked under PreSpec)

\* The run got past configuration validation and the probe
PrePassed ==
    cfg.phase = "pre" /\ reqs # <<>> /\ reqs[1].op = "probe" /\ reqs[1].ok

\* Positions in reqs of the snapshot creations that returned a descriptor
CreatedAt == {k \in DOMAIN reqs : reqs[k].op = "create_snapshot" /\ reqs[k].ok}

\* Does the entry list match the successful snapshot creations, in order,
\* with share fields exactly when the share creation that followed succeeded
EntriesMatch(entries) ==
    LET at == Ascending(CreatedAt)
    IN /\ Len(entries) = Len(at)
       /\ \A j \in DOMAIN entries :
            /\ entries[j].filesystem_id = snapCat[reqs[at[j]].oid].fs
            /\ entries[j].snapshot_object_id \in {0, reqs[at[j]].oid}
            /\ entries[j].has_share <=>
                 /\ at[j] < Len(reqs)
                 /\ reqs[at[j] + 1].op = "create_share"
                 /\ reqs[at[j] + 1].ok

\* C9: a pre-phase run past validation and probe exits non-zero if and only
\* if no snapshot creation succeeded
C9_ExitIffNoSnapshot ==
    (pc = "pre_done" /\ PrePassed) => (exitCode # 0 <=> CreatedAt = {})

\* C10: a pre-phase run past validation and probe has written the manifest
\* when it exits, and its entries are the successful snapshot creations in
\* input order
C10_ManifestAlwaysWritten ==
    (pc = "pre_done" /\ PrePassed) =>
        (manifest.st = "ok" /\ EntriesMatch(manifest.snapshots))

\* What C9 and C10 come to when the manifest path has a directory part
PreOutcomeWithDirectory ==
    (pc = "pre_done" /\ PrePassed /\ cfg.pathHasDir) =>
        /\ exitCode # 0 <=> CreatedAt = {}
        /\ manifest.st = "ok"
        /\ EntriesMatch(manifest.snapshots)

\* In every pre-phase state the list built so far matches the creations so far
PreEntriesSoFar ==
    (cfg.phase = "pre" /\ pc = "pre_loop") => EntriesMatch(created_snapshots)

\* The share name a creation request sent at clock reading t carries
\* (pre lines 175-176: prefix, '_', strftime of the clock)
ShareNameAt(t) == <<WordTok(SharePrefix)>> \o Strftime(t)

ShareCreations == {k \in DOMAIN reqs : reqs[k].op = "create_share"}

\* C16: no two share-creation requests of one pre-phase run carry the same
\* share name
C16_ShareNamesUnique ==
    cfg.phase = "pre" =>
        \A j, k \in ShareCreations :
            j # k => ShareNameAt(reqs[j].at) # ShareNameAt(reqs[k].at)

\* What holds instead: the names differ whenever the clock advanced by a
\* second or more between the two creations
ShareNamesDifferAcrossSeconds ==
    cfg.phase = "pre" =>
        \A j, k \in ShareCreations :
            reqs[j].at # reqs[k].at => ShareNameAt(reqs[j].at) # ShareNameAt(reqs[k].at)

----
\* Properties of a series of invocations (checked under LifeSpec)

\* The invocations so far, the running one last
Runs == journal \o (IF pc = "idle" THEN <<>> ELSE <<Ended>>)

\* The objects a list of manifest entries records
SnapIdsOf(entries) ==
    {entries[k].snapshot_object_id : k \in DOMAIN entries} \ {0}
ShareIdsOf(entries) ==
    {entries[k].smb_share_object_id : k \in {j \in DOMAIN entries : entries[j].has_share}} \ {0}

\* The DELETE targets of the manifest-driven cleanup of an invocation
TargetsOf(run) ==
    [k \in 1..(Len(run.reqs) - 1) |-> <<run.reqs[k + 1].op, run.reqs[k + 1].oid>>]

\* The post-phase is running right after a pre-phase that exited 0
AfterGoodPre ==
    /\ cfg.phase = "post"
    /\ journal # <<>>
    /\ journal[Len(journal)].phase = "pre"
    /\ journal[Len(journal)].exitCode = 0

\* C14: a post-phase that follows a pre-phase which created snapshots loads
\* what that pre-phase recorded.  With a succeeded job and cleanup on
\* success, and no failing call, at its exit every recorded share and
\* snapshot has been asked to be deleted, is gone from the array, and the
\* manifest file is gone (unless its removal failed); with a failed job and
\* no cleanup on failure they are all still on the array and the file is
\* as the pre-phase wrote it
C14_Lifecycle ==
    /\ (pc = "post_manifest" /\ cfg.job_result # "") =>
         (should_cleanup <=> cfg.job_result = "Success")
    /\ (AfterGoodPre /\ pc # "post_done") =>
         /\ created_snapshots = journal[Len(journal)].entries
         /\ created_snapshots # <<>>
    /\ (AfterGoodPre /\ pc = "post_done" /\ should_cleanup) =>
         /\ \A o \in SnapIdsOf(created_snapshots) :
              /\ o \notin liveSnaps
              /\ \E k \in DOMAIN reqs :
                   reqs[k].op = "delete_snapshot" /\ reqs[k].oid = o /\ reqs[k].ok
         /\ \A o \in ShareIdsOf(created_snapshots) :
              /\ o \notin liveShares
              /\ \E k \in DOMAIN reqs :
                   reqs[k].op = "delete_share" /\ reqs[k].oid = o /\ reqs[k].ok
         /\ RemoveWarning \notin warned => manifest.st = "absent"
    /\ (AfterGoodPre /\ ~should_cleanup) =>
         /\ SnapIdsOf(created_snapshots) \subseteq liveSnaps
         /\ ShareIdsOf(created_snapshots) \subseteq liveShares
         /\ manifest = WriteManifest(journal[Len(journal)].entries)

C14_Witness ==
    /\ AfterGoodPre
    /\ pc = "post_done"
    /\ should_cleanup
    /\ faults = 0
    /\ Len(created_snapshots) = 2
    /\ Cardinality(SnapIdsOf(created_snapshots)) = 2
    /\ Cardinality(ShareIdsOf(created_snapshots)) = 2
    /\ SnapIdsOf(created_snapshots) \cap liveSnaps = {}
    /\ ShareIdsOf(created_snapshots) \cap liveShares = {}
    /\ manifest.st = "absent"

\* The pre-phase invocations that ended before invocation k, and the latest
PresBefore(k) == {j \in 1..(k - 1) : journal[j].phase = "pre"}
LatestPre(k)  == CHOOSE j \in PresBefore(k) : \A h \in PresBefore(k) : h <= j

\* Invocation j wrote a manifest that the next invocation, a pre-phase of
\* another job, wrote over
Overwritten(j) ==
    /\ j < Len(journal)
    /\ journal[j].phase = "pre"
    /\ journal[j + 1].phase = "pre"

\* C15: a post-phase that runs right after its job's pre-phase loads exactly
\* the entries that pre-phase wrote and, when it cleans up, asks for exactly
\* their shares and snapshots.  When a second pre-phase runs before the first
\* job's post-phase, the file holds the second job's entries only: the next
\* post-phase targets the second job's objects, and no manifest-driven
\* cleanup ever targets the first job's objects, which stay on the array
C15_ManifestOwnership ==
    /\ \A k \in DOMAIN journal :
         (journal[k].phase = "post" /\ PresBefore(k) # {}) =>
            /\ LatestPre(k) = k - 1 =>
                 /\ journal[k].entries = journal[k - 1].entries
                 /\ journal[k].should_cleanup =>
                      TargetsOf(journal[k])
                        = ExpectedTargets(journal[k - 1].entries,
                                          Len(journal[k - 1].entries))
            /\ \A j \in PresBefore(k) \ {LatestPre(k)} :
                 \A q \in 2..Len(journal[k].reqs) :
                    /\ journal[k].reqs[q].op = "delete_snapshot" =>
                         journal[k].reqs[q].oid \notin SnapIdsOf(journal[j].entries)
                    /\ journal[k].reqs[q].op = "delete_share" =>
                         journal[k].reqs[q].oid \notin ShareIdsOf(journal[j].entries)
    /\ \A j \in DOMAIN journal :
         Overwritten(j) =>
            /\ manifest.st = "ok" =>
                 /\ SnapIdsOf(manifest.snapshots) \cap SnapIdsOf(journal[j].entries) = {}
                 /\ ShareIdsOf(manifest.snapshots) \cap ShareIdsOf(journal[j].entries) = {}
            /\ SnapIdsOf(journal[j].entries) \subseteq liveSnaps
            /\ ShareIdsOf(journal[j].entries) \subseteq liveShares
            /\ \A o \in SnapIdsOf(journal[j].entries) : ~ManifestAddressed("delete_snapshot", o)
            /\ \A o \in ShareIdsOf(journal[j].entries) : ~ManifestAddressed("delete_share", o)

\* pre1, pre2, post1, post2 have run: post1 deleted what the second job
\* created, post2 found no file, and the first job's objects are on the array
C15_Witness ==
    /\ Len(journal) = 4
    /\ journal[1].phase = "pre" /\ journal[2].phase = "pre"
    /\ journal[3].phase = "post" /\ journal[4].phase = "post"
    /\ SnapIdsOf(journal[1].entries) # {}
    /\ ShareIdsOf(journal[1].entries) # {}
    /\ journal[3].should_cleanup
    /\ journal[3].entries = journal[2].entries
    /\ SnapIdsOf(journal[2].entries) # {}
    /\ SnapIdsOf(journal[2].entries) \cap liveSnaps = {}
    /\ ShareIdsOf(journal[2].entries) \cap liveShares = {}
    /\ journal[4].should_cleanup
    /\ journal[4].entries = <<>>
    /\ Len(journal[4].reqs) = 1
    /\ SnapIdsOf(journal[1].entries) \subseteq liveSnaps

\* pre, post, pre, post: each post-phase cleaned up its own job's entries
C15_WitnessSingle ==
    /\ Len(journal) = 4
    /\ journal[1].phase = "pre" /\ journal[2].phase = "post"
    /\ journal[3].phase = "pre" /\ journal[4].phase = "post"
    /\ journal[2].should_cleanup /\ journal[4].should_cleanup
    /\ journal[2].entries = journal[1].entries
    /\ journal[4].entries = journal[3].entries
    /\ SnapIdsOf(journal[1].entries) \cap SnapIdsOf(journal[3].entries) = {}
    /\ Len(journal[4].reqs) = 5

----
\* Properties of one invocation of either script (checked under RunSpec)

\* Positions in reqs of the snapshot creations the array carried out but
\* answered without a descriptor
AcceptedWithoutDescriptor ==
    {k \in DOMAIN reqs : /\ reqs[k].op = "create_snapshot"
                         /\ reqs[k].oid # 0
                         /\ ~reqs[k].ok}

\* The manifest entries the post-phase has handled so far
HandledEntries ==
    IF should_cleanup THEN 1..(i - 1) ELSE {}

\* C20: in the pre-phase an entry is recorded per snapshot creation that
\* returned a descriptor and for no other: a snapshot the array created but
\* answered without a descriptor is on the array and in no entry, and a run in
\* which no creation returned a descriptor exits non-zero.  In the post-phase
\* the manifest-driven cleanup asks for the deletion of recorded identifiers
\* only; an entry with an empty snapshot identifier gets no snapshot DELETE
\* and is not counted
C20_OnlyRecordedReachable ==
    /\ PrePassed =>
         /\ Len(created_snapshots) = Cardinality(CreatedAt)
         /\ SnapIdsOf(created_snapshots) \subseteq {reqs[k].oid : k \in CreatedAt}
         /\ \A k \in AcceptedWithoutDescriptor :
              /\ reqs[k].oid \in liveSnaps
              /\ reqs[k].oid \notin SnapIdsOf(created_snapshots)
         /\ (pc = "pre_done" /\ CreatedAt = {}) =>
              /\ exitCode # 0
              /\ cfg.pathHasDir => manifest = WriteManifest(<<>>)
    /\ cfg.phase = "post" =>
         /\ \A k \in DOMAIN reqs :
              reqs[k].via = "manifest" =>
                 /\ reqs[k].oid # 0
                 /\ reqs[k].op = "delete_snapshot" =>
                      reqs[k].oid \in SnapIdsOf(created_snapshots)
                 /\ reqs[k].op = "delete_share" =>
                      reqs[k].oid \in ShareIdsOf(created_snapshots)
         /\ Cardinality({k \in DOMAIN reqs : reqs[k].op = "delete_snapshot"})
              = Cardinality({e \in HandledEntries :
                               created_snapshots[e].snapshot_object_id # 0})
         /\ deleted_count
              = Cardinality({k \in DOMAIN reqs :
                               reqs[k].op = "delete_snapshot" /\ reqs[k].ok})

\* A post-phase ended after handling an entry without a snapshot identifier
\* and one with: three DELETEs were sent and one snapshot counted
C20_Witness ==
    /\ pc = "post_done"
    /\ should_cleanup
    /\ Len(created_snapshots) = 2
    /\ created_snapshots[1].snapshot_object_id = 0
    /\ created_snapshots[2].snapshot_object_id # 0
    /\ Len(reqs) = 4
    /\ deleted_count = 1

\* A pre-phase ended in which the array created a snapshot and answered
\* without a descriptor: the snapshot is on the array and in no entry
EmptyDescriptorReached ==
    /\ pc = "pre_done"
    /\ PrePassed
    /\ AcceptedWithoutDescriptor # {}
    /\ created_snapshots = <<>>
    /\ exitCode = 1

\* The invocation has ended
Exited == pc \in {"pre_done", "post_done"}

\* What no step before the end of validation and probe may touch: the
\* array's objects and the manifest file
ArrayAndFile == <<snapCat, liveSnaps, shareCat, liveShares, manifest>>

\* C13: the step that starts either script, when host, username or secret
\* is missing (for the pre-phase also when no filesystem is named), ends the
\* process with exit status 1 and no request sent; otherwise it sends the
\* probe and nothing else, and when the probe is answered with an error the
\* process ends with exit status 1, no entry loaded, and the array's objects
\* and the manifest file as they were.  Nothing happens after the exit
C13_FailFast ==
    [][ /\ pc = "idle" =>
             LET missing == \/ ~cfg'.credsOk
                            \/ cfg'.phase = "pre" /\ cfg'.filesystems = <<>>
             IN /\ missing =>
                     /\ reqs' = <<>>
                     /\ sweepReqs' = {}
                     /\ exitCode' = 1
                     /\ Exited'
                     /\ created_snapshots' = <<>>
                     /\ UNCHANGED ArrayAndFile
                /\ ~missing =>
                     /\ Len(reqs') = 1
                     /\ reqs'[1].op = "probe"
                     /\ UNCHANGED ArrayAndFile
                     /\ reqs'[1].status \notin 200..299 =>
                          /\ sweepReqs' = {}
                          /\ exitCode' = 1
                          /\ Exited'
                          /\ created_snapshots' = <<>>
                          /\ ~should_cleanup'
        /\ Exited =>
             UNCHANGED <<ArrayAndFile, reqs, sweepReqs, exitCode, pc>>
      ]_vars

\* A post-phase of a succeeded job with cleanup on success whose probe was
\* refused: it ended with status 1 after that one request, with the manifest
\* and the objects it records still in place
C13_Witness ==
    /\ pc = "post_done"
    /\ cfg.credsOk
    /\ cfg.job_result = "Success"
    /\ cfg.cleanup_on_success
    /\ Len(reqs) = 1
    /\ ~reqs[1].ok
    /\ exitCode = 1
    /\ manifest.st = "ok"
    /\ SnapIdsOf(manifest.snapshots) \subseteq liveSnaps
    /\ sweepReqs = {}

\* A pre-phase without credentials, and one without filesystems, ended with
\* status 1 and no request
MissingSettingReached ==
    /\ pc = "pre_done"
    /\ ~cfg.credsOk \/ cfg.filesystems = <<>>
    /\ reqs = <<>>
    /\ exitCode = 1

====
